---- MODULE Spec2Model ----
(***************************************************************************)
(* Cartoon Avatar Creator: the state machine of the App component          *)
(* (src/App.tsx) together with the generateAvatar client                   *)
(* (src/services/geminiService.ts).                                        *)
(*                                                                         *)
(* A step of the model is one callback of the browser's event loop: a user *)
(* event handler, a FileReader onloadend, the continuation of the awaited  *)
(* generateAvatar promise, an interval tick, or React's flush of the       *)
(* passive effects (useEffect) of the last commit.  setState followed by   *)
(* the re-render is one atomic update; the effects of a commit run before  *)
(* the next update is applied.                                             *)
(***************************************************************************)
EXTENDS Integers, Sequences, FiniteSets, TLC

(***************************************************************************)
(* Bounds of the model (not program constants).                            *)
(***************************************************************************)
MaxUserEvents == 3
MaxClock == 2

(***************************************************************************)
(* Program constants.                                                      *)
(***************************************************************************)
HISTORY_CAP == 20
expectedDuration == 15000
INTERVAL_MS == 100
MAX_RAW_PERCENT == 98
DONE_PERCENT == 100

NULL == "null"

PROGRESS_MESSAGES ==
  << "recognising facial features", "analysing proportions",
     "sketching outline", "matching style colours",
     "restoring clothing details", "rendering light and shadow",
     "finishing" >>

LOCAL_STORAGE_KEY == "cartoon_avatar_history"

AvatarStyle ==
  << "PIXAR", "VECTOR", "ANIME", "SKETCH", "COMIC", "CYBERPUNK", "GOTHIC", "CLAY" >>

INVALID_FILE_MSG == "invalid image file"
GENERATE_FALLBACK_MSG == "generation failed, please retry"
API_KEY_MISSING_MSG == "API Key is missing. Please ensure process.env.API_KEY is configured."
NO_IMAGE_PART_MSG == "The model did not return an image part in the response."
SERVICE_FALLBACK_MSG == "Failed to generate avatar. Please try again."

Min(a, b) == IF a <= b THEN a ELSE b

\* JavaScript truthiness of a string-or-null value
Truthy_NotEmpty(v) == v # ""

Truthy(v) == v # NULL /\ v # ""

\* a || b on string-or-null values
OrElse(a, b) == IF Truthy(a) THEN a ELSE b

\* String.prototype.startsWith
StartsWith(s, prefix) ==
  Len(s) >= Len(prefix) /\ SubSeq(s, 1, Len(prefix)) = prefix

(***************************************************************************)
(* Files offered by the picker or by a drop: declared media type and       *)
(* base64 content.                                                         *)
(***************************************************************************)
Files ==
  { [type |-> "image/png",  data |-> "AAAA"],
    [type |-> "image/jpeg", data |-> "BBBB"],
    [type |-> "text/plain", data |-> "CCCC"] }

\* FileReader.readAsDataURL: the result of a successful read
DataURL(file) == "data:" \o file.type \o ";base64," \o file.data

(***************************************************************************)
(* Progress arithmetic.  progressPercent is kept as a fixed-point number   *)
(* in units of 1/PercentScale percent, so that (elapsed / 15000) * 100 is  *)
(* exact for every whole number of milliseconds.                           *)
(***************************************************************************)
PercentScale == expectedDuration \div 100

Pct(p) == p * PercentScale

\* Math.min((elapsed / expectedDuration) * 100, 98)
RawPercent_NoClamp(elapsed) == elapsed

RawPercent(elapsed) == Min(elapsed, Pct(MAX_RAW_PERCENT))

\* Math.min(Math.floor((rawPercent / 100) * PROGRESS_MESSAGES.length), length - 1)
StepIndex(raw) ==
  Min((raw * Len(PROGRESS_MESSAGES)) \div Pct(100), Len(PROGRESS_MESSAGES) - 1)

(***************************************************************************)
(* The persisted history store: one localStorage key.                      *)
(***************************************************************************)
\* JSON.stringify of a history list: each item in field order
Stringify(h) ==
  [ kind  |-> "json",
    items |-> [ i \in 1..Len(h) |->
                 << h[i].id, h[i].originalImage, h[i].generatedAvatar,
                    h[i].style, h[i].timestamp >> ] ]

\* JSON.parse of a stored array
Parse(s) ==
  [ i \in 1..Len(s.items) |->
      [ id              |-> s.items[i][1],
        originalImage   |-> s.items[i][2],
        generatedAvatar |-> s.items[i][3],
        style           |-> s.items[i][4],
        timestamp       |-> s.items[i][5] ] ]

\* localStorage.getItem followed by `if (savedHistory)`: null when the key is
\* absent, and the empty string is falsy
HasSavedHistory(s) == s.kind # "absent" /\ ~(s.kind = "raw" /\ s.text = "")

\* the stored text is the JSON literal null: JSON.parse returns null
ParsesToNull(s) == s.kind = "raw" /\ s.text = "null"

\* does JSON.parse succeed on the stored text
Parses(s) == s.kind = "json" \/ ParsesToNull(s)

\* the k-th record an earlier session of the application created
StoredItem(k) ==
  [ id              |-> ToString(k * 1000),
    originalImage   |-> DataURL([type |-> "image/png", data |-> "AAAA"]),
    generatedAvatar |-> "data:image/png;base64," \o "old" \o ToString(k % 2),
    style           |-> AvatarStyle[(k % 2) + 1],
    timestamp       |-> k * 1000 ]

\* a list an earlier session saved: most recent first, within the cap
StoredList(n) == [ i \in 1..n |-> StoredItem(n + 1 - i) ]

InitialStores ==
  { [kind |-> "absent"],
    [kind |-> "raw", text |-> ""],
    [kind |-> "raw", text |-> "{not json"],
    [kind |-> "raw", text |-> "null"],
    Stringify(StoredList(HISTORY_CAP - 1)) }

\* the clock when the application starts: after every stored record
StartTime == (HISTORY_CAP + 1) * 1000

ClockStep == expectedDuration \div 2

VARIABLES
  originalImage, generatedAvatar, isGenerating, style, error,
  isDragging, progressStep, progressPercent, history,
  progressIntervalRef, intervals, timerSeq,
  store, readers, inflight, effects,
  apiKey, now, calls, events, ev

appState ==
  << originalImage, generatedAvatar, isGenerating, style, error,
     isDragging, progressStep, progressPercent, history >>

timerVars == << progressIntervalRef, intervals, timerSeq >>

vars ==
  << originalImage, generatedAvatar, isGenerating, style, error,
     isDragging, progressStep, progressPercent, history,
     progressIntervalRef, intervals, timerSeq,
     store, readers, inflight, effects,
     apiKey, now, calls, events, ev >>

(***************************************************************************)
(* The state after the first render: useState's initial value, and the     *)
(* three effects of the mount still to run.                                *)
(***************************************************************************)
InitWith(stores, spent) ==
  /\ originalImage = NULL
  /\ generatedAvatar = NULL
  /\ isGenerating = FALSE
  /\ style = AvatarStyle[1]
  /\ error = NULL
  /\ isDragging = FALSE
  /\ progressStep = 0
  /\ progressPercent = 0
  /\ history = << >>
  /\ progressIntervalRef = 0
  /\ intervals = {}
  /\ timerSeq = 0
  /\ store \in stores
  /\ readers = << >>
  /\ inflight = << >>
  /\ effects = {"load", "save", "progress"}
  /\ apiKey \in {"key", ""}
  /\ now = StartTime
  /\ calls = 0
  /\ events = spent
  /\ ev = [name |-> "mount"]

Init == InitWith(InitialStores, 0)


(***************************************************************************)
(* Passive effects (useEffect), in declaration order.                      *)
(***************************************************************************)
\* useEffect(load history, []): the history the queued update installs
LoadedHistory(h, s) ==
  IF HasSavedHistory(s) /\ Parses(s) /\ ~ParsesToNull(s) THEN Parse(s) ELSE h

\* does the load effect queue a setState
LoadApplies(s) == HasSavedHistory(s) /\ Parses(s)

\* the render that follows the load reads state.history.length: with a null
\* history it throws, and React unmounts the tree; nothing runs afterwards
RenderThrows(s) == LoadApplies(s) /\ ParsesToNull(s)

\* useEffect(save history, [state.history]): what is written under the key
SavedStore(h) == Stringify(h)

\* clearInterval(progressIntervalRef.current) when the ref is set
ClearInterval(ivs, ref) == { t \in ivs : t.id # ref }

\* A click, a timer or a reader callback runs only between React's flushes,
\* and never before the microtask of an already rejected promise.
Quiescent ==
  /\ effects = {}
  /\ \A i \in 1..Len(inflight) : inflight[i].stage # "microtask"

\* a user event: the handlers below run one per event, between flushes
UserEvent ==
  /\ Quiescent
  /\ events < MaxUserEvents
  /\ events' = events + 1

\* the fields the setState of the progress effect replaces when not
\* generating
ProgressReset_KeepsStep ==
  [ progressPercent |-> 0, progressStep |-> progressStep ]

ProgressReset == [ progressPercent |-> 0, progressStep |-> 0 ]

RunEffects ==
  /\ effects # {}
  /\ "unmounted" \notin effects
  /\ history' = IF "load" \in effects THEN LoadedHistory(history, store) ELSE history
  /\ store' = IF "save" \in effects THEN SavedStore(history) ELSE store
  /\ IF "progress" \in effects
       THEN IF isGenerating
              THEN /\ timerSeq' = timerSeq + 1
                   /\ progressIntervalRef' = timerSeq + 1
                   /\ intervals' = ClearInterval(intervals, progressIntervalRef)
                                     \cup {[id |-> timerSeq + 1, startTime |-> now]}
                   /\ UNCHANGED << progressPercent, progressStep >>
              ELSE /\ intervals' = ClearInterval(intervals, progressIntervalRef)
                   /\ progressPercent' = ProgressReset.progressPercent
                   /\ progressStep' = ProgressReset.progressStep
                   /\ UNCHANGED << timerSeq, progressIntervalRef >>
       ELSE UNCHANGED << timerVars, progressPercent, progressStep >>
  /\ effects' = IF "load" \in effects /\ LoadApplies(store)
                  THEN IF RenderThrows(store) THEN {"unmounted"} ELSE {"save"}
                  ELSE {}
  /\ ev' = [name |-> "effects", ran |-> effects]
  /\ UNCHANGED << originalImage, generatedAvatar, isGenerating, style, error,
                  isDragging, readers, inflight, apiKey, now, calls, events >>

(***************************************************************************)
(* Image ingestion.                                                        *)
(***************************************************************************)
\* the media-type test of processFile
IsImageFile_NoCheck(file) == TRUE

IsImageFile(file) == StartsWith(file.type, "image/")

\* processFile(file): reject a non-image, else start a FileReader
ProcessFile(file) ==
  IF ~IsImageFile(file)
    THEN /\ error' = INVALID_FILE_MSG
         /\ UNCHANGED readers
    ELSE /\ readers' = Append(readers, file)
         /\ UNCHANGED error

HandleFileUpload(file) ==
  /\ UserEvent
  /\ ProcessFile(file)
  /\ ev' = [name |-> "upload", file |-> file]
  /\ UNCHANGED << originalImage, generatedAvatar, isGenerating, style,
                  isDragging, progressStep, progressPercent, history,
                  timerVars, store, inflight, effects, apiKey, now, calls >>

HandleDragOver ==
  /\ UserEvent
  /\ isDragging' = TRUE
  /\ ev' = [name |-> "dragover"]
  /\ UNCHANGED << originalImage, generatedAvatar, isGenerating, style, error,
                  progressStep, progressPercent, history, timerVars, store,
                  readers, inflight, effects, apiKey, now, calls >>

HandleDragLeave ==
  /\ UserEvent
  /\ isDragging' = FALSE
  /\ ev' = [name |-> "dragleave"]
  /\ UNCHANGED << originalImage, generatedAvatar, isGenerating, style, error,
                  progressStep, progressPercent, history, timerVars, store,
                  readers, inflight, effects, apiKey, now, calls >>

HandleDrop(file) ==
  /\ UserEvent
  /\ isDragging' = FALSE
  /\ ProcessFile(file)
  /\ ev' = [name |-> "drop", file |-> file]
  /\ UNCHANGED << originalImage, generatedAvatar, isGenerating, style,
                  progressStep, progressPercent, history, timerVars, store,
                  inflight, effects, apiKey, now, calls >>

\* a drop that carries no file (dataTransfer.files is empty)
HandleDropNoFile ==
  /\ UserEvent
  /\ isDragging' = FALSE
  /\ ev' = [name |-> "dropnofile"]
  /\ UNCHANGED << originalImage, generatedAvatar, isGenerating, style, error,
                  progressStep, progressPercent, history, timerVars, store,
                  readers, inflight, effects, apiKey, now, calls >>

RemoveAt(s, i) == SubSeq(s, 1, i - 1) \o SubSeq(s, i + 1, Len(s))

\* the fields the setState of reader.onloadend replaces
OnLoadEndUpdate_KeepsAvatar(result) ==
  [ originalImage |-> result, error |-> NULL,
    generatedAvatar |-> generatedAvatar ]

OnLoadEndUpdate(result) ==
  [ originalImage |-> result, error |-> NULL, generatedAvatar |-> NULL ]

\* reader.onloadend of the i-th pending reader; reader.result is the data
\* URL, or null when the read failed
ReaderOnLoadEnd(i, ok) ==
  /\ Quiescent
  /\ i \in 1..Len(readers)
  /\ LET result == IF ok THEN DataURL(readers[i]) ELSE NULL
         u == OnLoadEndUpdate(result)
     IN  /\ originalImage' = u.originalImage
         /\ error' = u.error
         /\ generatedAvatar' = u.generatedAvatar
         /\ ev' = [name |-> "loadend", file |-> readers[i], ok |-> ok,
                   result |-> result, index |-> i]
  /\ readers' = RemoveAt(readers, i)
  /\ UNCHANGED << isGenerating, style, isDragging, progressStep,
                  progressPercent, history, timerVars, store, inflight,
                  effects, apiKey, now, calls, events >>


(***************************************************************************)
(* Style selection.                                                        *)
(***************************************************************************)
\* the styles the modelled user picks explicitly
StyleChoices == { AvatarStyle[1], AvatarStyle[2] }

\* the disabled attribute of a style button
StyleButtonDisabled_Never == FALSE

StyleButtonDisabled == isGenerating

\* onClick of a style button; a click on a disabled button does nothing
SelectStyle(s) ==
  /\ UserEvent
  /\ style' = IF StyleButtonDisabled THEN style ELSE s
  /\ ev' = [name |-> "style", style |-> s]
  /\ UNCHANGED << originalImage, generatedAvatar, isGenerating, error,
                  isDragging, progressStep, progressPercent, history,
                  timerVars, store, readers, inflight, effects, apiKey, now,
                  calls >>

\* styles.filter(s => s !== state.style)
AvailableStyles_All(cur) == AvatarStyle

AvailableStyles(cur) == SelectSeq(AvatarStyle, LAMBDA s : s # cur)

\* the values Math.floor(Math.random() * availableStyles.length) takes in the
\* model
RandomDraws == {0, 1}

\* handleRandomStyle; k is Math.floor(Math.random() * availableStyles.length)
HandleRandomStyle(k) ==
  /\ UserEvent
  /\ k \in 0..(Len(AvailableStyles(style)) - 1)
  /\ style' = IF isGenerating THEN style ELSE AvailableStyles(style)[k + 1]
  /\ ev' = [name |-> "random", k |-> k]
  /\ UNCHANGED << originalImage, generatedAvatar, isGenerating, error,
                  isDragging, progressStep, progressPercent, history,
                  timerVars, store, readers, inflight, effects, apiKey, now,
                  calls >>

(***************************************************************************)
(* Generation request lifecycle.                                           *)
(***************************************************************************)
\* what the remote model may answer
Responses ==
  { [kind |-> "image", data |-> "new1"],
    [kind |-> "noimage"],
    [kind |-> "error", message |-> ""] }

\* generateAvatar up to its first suspension: without an API key the promise
\* is already rejected, else it waits for the remote model
GenerateAvatarCall_NoKeyCheck(image, s) ==
  [ image |-> image, style |-> s, stage |-> "remote" ]

GenerateAvatarCall(image, s) ==
  [ image |-> image, style |-> s,
    stage |-> IF Truthy(apiKey) THEN "remote" ELSE "microtask" ]

\* how the promise of generateAvatar settles
GenerateAvatarOutcome_NoImageCheck(req, resp) ==
  IF req.stage = "microtask"
    THEN [ok |-> FALSE, message |-> API_KEY_MISSING_MSG]
    ELSE CASE resp.kind = "image" ->
                [ok |-> TRUE, value |-> "data:image/png;base64," \o resp.data]
           [] resp.kind = "noimage" ->
                [ok |-> TRUE, value |-> NULL]
           [] resp.kind = "error" ->
                [ok |-> FALSE, message |-> OrElse(resp.message, SERVICE_FALLBACK_MSG)]

GenerateAvatarOutcome(req, resp) ==
  IF req.stage = "microtask"
    THEN [ok |-> FALSE, message |-> API_KEY_MISSING_MSG]
    ELSE CASE resp.kind = "image" ->
                [ok |-> TRUE, value |-> "data:image/png;base64," \o resp.data]
           [] resp.kind = "noimage" ->
                [ok |-> FALSE, message |-> OrElse(NO_IMAGE_PART_MSG, SERVICE_FALLBACK_MSG)]
           [] resp.kind = "error" ->
                [ok |-> FALSE, message |-> OrElse(resp.message, SERVICE_FALLBACK_MSG)]

\* the disabled attribute of the generate button
GenerateDisabled_NoBusy == ~Truthy(originalImage)

GenerateDisabled_And == ~Truthy(originalImage) /\ isGenerating

GenerateDisabled == ~Truthy(originalImage) \/ isGenerating

\* the passive effects a commit schedules: the dependencies that changed
EffectsOf_NoSave(historyAssigned, generatingChanged) ==
  IF generatingChanged THEN {"progress"} ELSE {}

EffectsOf(historyAssigned, generatingChanged) ==
  (IF historyAssigned THEN {"save"} ELSE {})
    \cup (IF generatingChanged THEN {"progress"} ELSE {})

\* the fields the first setState of handleGenerate replaces
DispatchUpdate_KeepsAvatar ==
  [ isGenerating |-> TRUE, error |-> NULL, generatedAvatar |-> generatedAvatar ]

DispatchUpdate_KeepsError ==
  [ isGenerating |-> TRUE, error |-> error, generatedAvatar |-> NULL ]

DispatchUpdate ==
  [ isGenerating |-> TRUE, error |-> NULL, generatedAvatar |-> NULL ]

\* handleGenerate up to the await
HandleGenerate ==
  IF ~Truthy(originalImage)
    THEN UNCHANGED << isGenerating, error, generatedAvatar, inflight, calls,
                      effects >>
    ELSE /\ isGenerating' = DispatchUpdate.isGenerating
         /\ error' = DispatchUpdate.error
         /\ generatedAvatar' = DispatchUpdate.generatedAvatar
         /\ inflight' = Append(inflight, GenerateAvatarCall(originalImage, style))
         /\ calls' = calls + 1
         /\ effects' = EffectsOf(FALSE, ~isGenerating)

\* a click on the generate button
ClickGenerate ==
  /\ UserEvent
  /\ ev' = [name |-> "generate", accepted |-> ~GenerateDisabled]
  /\ IF GenerateDisabled
       THEN UNCHANGED << isGenerating, error, generatedAvatar, inflight,
                         calls, effects >>
       ELSE HandleGenerate
  /\ UNCHANGED << originalImage, style, isDragging, progressStep,
                  progressPercent, history, timerVars, store, readers,
                  apiKey, now >>

\* the record handleGenerate builds after the await
NewHistoryItem_Swapped(req, result) ==
  [ id              |-> ToString(now),
    originalImage   |-> result,
    generatedAvatar |-> req.image,
    style           |-> req.style,
    timestamp       |-> now ]

NewHistoryItem(req, result) ==
  [ id              |-> ToString(now),
    originalImage   |-> req.image,
    generatedAvatar |-> result,
    style           |-> req.style,
    timestamp       |-> now ]

\* [newHistoryItem, ...prev.history].slice(0, 20)
Prepend_NoSlice(item, h) == << item >> \o h

Prepend_AtEnd(item, h) ==
  SubSeq(h \o << item >>, 1, Min(Len(h) + 1, HISTORY_CAP))

Prepend_Replace(item, h) ==
  IF h = << >> THEN << item >> ELSE << item >> \o Tail(h)

Prepend_KeepTail(item, h) ==
  SubSeq(<< item >> \o h, Len(h) + 2 - Min(Len(h) + 1, HISTORY_CAP), Len(h) + 1)

Prepend(item, h) == SubSeq(<< item >> \o h, 1, Min(Len(h) + 1, HISTORY_CAP))

\* the continuation of handleGenerate when generateAvatar resolves
GenerateSucceeded(i, resp) ==
  /\ effects = {}
  /\ i \in 1..Len(inflight)
  /\ inflight[i].stage = "remote" => Quiescent
  /\ LET req == inflight[i]
         out == GenerateAvatarOutcome(req, resp)
     IN  /\ out.ok
         /\ generatedAvatar' = out.value
         /\ isGenerating' = FALSE
         /\ progressPercent' = Pct(DONE_PERCENT)
         /\ history' = Prepend(NewHistoryItem(req, out.value), history)
         /\ ev' = [name |-> "resolve", payload |-> out.value,
                   style |-> req.style, image |-> req.image,
                   prevLen |-> Len(history), resp |-> resp]
  /\ inflight' = RemoveAt(inflight, i)
  /\ effects' = EffectsOf(TRUE, isGenerating)
  /\ UNCHANGED << originalImage, style, error, isDragging, progressStep,
                  timerVars, store, readers, apiKey, now, calls, events >>

\* the fields the setState in the catch of handleGenerate replaces
CatchUpdate_Stuck(message) ==
  [ isGenerating |-> isGenerating,
    error        |-> OrElse(message, GENERATE_FALLBACK_MSG) ]

CatchUpdate(message) ==
  [ isGenerating |-> FALSE,
    error        |-> OrElse(message, GENERATE_FALLBACK_MSG) ]

\* the catch of handleGenerate when generateAvatar rejects
GenerateFailed(i, resp) ==
  /\ effects = {}
  /\ i \in 1..Len(inflight)
  /\ inflight[i].stage = "remote" => Quiescent
  /\ LET req == inflight[i]
         out == GenerateAvatarOutcome(req, resp)
         u == CatchUpdate(out.message)
     IN  /\ ~out.ok
         /\ isGenerating' = u.isGenerating
         /\ error' = u.error
         /\ ev' = [name |-> "reject", message |-> out.message]
  /\ inflight' = RemoveAt(inflight, i)
  /\ effects' = EffectsOf(FALSE, isGenerating' # isGenerating)
  /\ UNCHANGED << originalImage, generatedAvatar, style, isDragging,
                  progressStep, progressPercent, history, timerVars, store,
                  readers, apiKey, now, calls, events >>

(***************************************************************************)
(* History management.                                                     *)
(***************************************************************************)
\* the entries the modelled user clicks on: the two newest and the oldest
Picks(h) == {1, 2, Len(h)} \cap (1..Len(h))

\* the fields the setState of handleSelectHistoryItem replaces
SelectUpdate_KeepsError(item) ==
  [ originalImage   |-> item.originalImage,
    generatedAvatar |-> item.generatedAvatar,
    style           |-> item.style,
    error           |-> error ]

SelectUpdate(item) ==
  [ originalImage   |-> item.originalImage,
    generatedAvatar |-> item.generatedAvatar,
    style           |-> item.style,
    error           |-> NULL ]

HandleSelectHistoryItem(i) ==
  /\ UserEvent
  /\ i \in Picks(history)
  /\ LET u == SelectUpdate(history[i])
     IN  /\ originalImage' = u.originalImage
         /\ generatedAvatar' = u.generatedAvatar
         /\ style' = u.style
         /\ error' = u.error
  /\ ev' = [name |-> "select", item |-> history[i]]
  /\ UNCHANGED << isGenerating, isDragging, progressStep, progressPercent,
                  history, timerVars, store, readers, inflight, effects,
                  apiKey, now, calls >>

\* prev.history.filter(item => item.id !== id)
WithoutId(h, id) == SelectSeq(h, LAMBDA item : item.id # id)

HandleDeleteHistoryItem(i) ==
  /\ UserEvent
  /\ i \in Picks(history)
  /\ history' = WithoutId(history, history[i].id)
  /\ effects' = EffectsOf(TRUE, FALSE)
  /\ ev' = [name |-> "delete", id |-> history[i].id]
  /\ UNCHANGED << originalImage, generatedAvatar, isGenerating, style, error,
                  isDragging, progressStep, progressPercent, timerVars, store,
                  readers, inflight, apiKey, now, calls >>

\* handleClearHistory: the list after window.confirm returned `confirmed`
ClearedHistory_NoConfirm(h, confirmed) == << >>

ClearedHistory(h, confirmed) == IF confirmed THEN << >> ELSE h

\* the clear button exists only while the history section is rendered
HandleClearHistory(confirmed) ==
  /\ UserEvent
  /\ Len(history) > 0
  /\ history' = ClearedHistory(history, confirmed)
  /\ effects' = EffectsOf(confirmed, FALSE)
  /\ ev' = [name |-> "clear", confirmed |-> confirmed]
  /\ UNCHANGED << originalImage, generatedAvatar, isGenerating, style, error,
                  isDragging, progressStep, progressPercent, timerVars, store,
                  readers, inflight, apiKey, now, calls >>

(***************************************************************************)
(* Progress simulator and clock.                                           *)
(***************************************************************************)
\* A timer callback is a task of its own. The setState of a promise
\* continuation is rendered, and its effects run, in a later task, so a
\* timer that is due may fire first: its updater is then applied to the
\* state the continuation produced, before the effects cancel the timer.
\* (After a click React renders and flushes the effects synchronously.)
TimerMayFire ==
  /\ \A i \in 1..Len(inflight) : inflight[i].stage # "microtask"
  /\ \/ effects = {}
     \/ effects \subseteq {"save", "progress"} /\ ev.name \in {"resolve", "reject"}

\* the callback of an active interval timer
IntervalTick(t) ==
  /\ TimerMayFire
  /\ t \in intervals
  /\ now - t.startTime >= INTERVAL_MS
  /\ progressPercent' = RawPercent(now - t.startTime)
  /\ progressStep' = StepIndex(RawPercent(now - t.startTime))
  /\ ev' = [name |-> "tick", timer |-> t.id]
  /\ UNCHANGED << originalImage, generatedAvatar, isGenerating, style, error,
                  isDragging, history, timerVars, store, readers, inflight,
                  effects, apiKey, now, calls, events >>

\* Date.now() moves on
ClockAdvance ==
  /\ effects = {}
  /\ now < StartTime + MaxClock * ClockStep
  /\ now' = now + ClockStep
  /\ ev' = [name |-> "clock"]
  /\ UNCHANGED << appState, timerVars, store, readers, inflight, effects,
                  apiKey, calls, events >>

Next ==
  \/ RunEffects
  \/ \E file \in Files : HandleFileUpload(file)
  \/ HandleDragOver
  \/ HandleDragLeave
  \/ \E file \in Files : HandleDrop(file)
  \/ HandleDropNoFile
  \/ \E i \in 1..Len(readers), ok \in BOOLEAN : ReaderOnLoadEnd(i, ok)
  \/ \E s \in StyleChoices : SelectStyle(s)
  \/ \E k \in RandomDraws : HandleRandomStyle(k)
  \/ ClickGenerate
  \/ \E i \in 1..Len(inflight), resp \in Responses : GenerateSucceeded(i, resp)
  \/ \E i \in 1..Len(inflight), resp \in Responses : GenerateFailed(i, resp)
  \/ \E i \in Picks(history) : HandleSelectHistoryItem(i)
  \/ \E i \in Picks(history) : HandleDeleteHistoryItem(i)
  \/ \E confirmed \in BOOLEAN : HandleClearHistory(confirmed)
  \/ \E t \in intervals : IntervalTick(t)
  \/ ClockAdvance

Spec == Init /\ [][Next]_vars


(***************************************************************************)
(* The same machine with the scheduling the environment guarantees: React  *)
(* flushes the effects of a commit, and a generateAvatar call settles.     *)
(***************************************************************************)
Settle ==
  \E i \in 1..Len(inflight), resp \in Responses :
    GenerateSucceeded(i, resp) \/ GenerateFailed(i, resp)

\* a first session: nothing usable under the history key
FreshInit == Init /\ store.kind # "json"

LiveSpec ==
  FreshInit /\ [][Next]_vars /\ WF_vars(RunEffects) /\ WF_vars(Settle)

\* teardown: React unmounts App and runs the cleanup of the progress effect;
\* nothing of the application runs afterwards
Unmount ==
  /\ UserEvent
  /\ intervals' = ClearInterval(intervals, progressIntervalRef)
  /\ effects' = {"unmounted"}
  /\ ev' = [name |-> "unmount"]
  /\ UNCHANGED << appState, progressIntervalRef, timerSeq, store, readers,
                  inflight, apiKey, now, calls >>

\* the application with its teardown
TeardownSpec == Init /\ [][Next \/ Unmount]_vars

\* a first visit (nothing stored) followed for one user event more than
\* MaxUserEvents allows
DeepInit == InitWith({[kind |-> "absent"]}, 0 - 1)

DeepSpec == DeepInit /\ [][Next]_vars

(***************************************************************************)
(* Properties.                                                             *)
(***************************************************************************)

\* C1: at most one generateAvatar call is in flight in every reachable state.
C1_AtMostOneInFlight == Len(inflight) <= 1

\* a second request was dispatched after the first settled, and is alone
C1_Witness == calls = 2 /\ Len(inflight) = 1

\* C2: generatedAvatar is null whenever isGenerating is true.
C2_AvatarNullWhileGenerating == isGenerating => generatedAvatar = NULL

\* C3: the history list never has more than 20 entries.
C3_HistoryCapped == Len(history) <= HISTORY_CAP

\* a success was applied to a full history
C3_Witness ==
  ev.name = "resolve" /\ ev.prevLen = HISTORY_CAP /\ Len(history) = HISTORY_CAP

\* C4: in the state a resolution with payload P of a request dispatched with
\* style S produces, generatedAvatar = P, isGenerating is false, history[0]
\* carries P and S, and the history has min(previous length + 1, 20) entries.
C4_SuccessState ==
  ev.name = "resolve" =>
    /\ generatedAvatar = ev.payload
    /\ ~isGenerating
    /\ Len(history) >= 1
    /\ history[1].generatedAvatar = ev.payload
    /\ history[1].style = ev.style
    /\ Len(history) = Min(ev.prevLen + 1, HISTORY_CAP)

\* a success below the cap, for a request whose style is no longer selected
C4_Witness ==
  /\ ev.name = "resolve"
  /\ ev.prevLen = HISTORY_CAP - 1
  /\ Len(history) = HISTORY_CAP
  /\ style # ev.style

\* C5: in the state a rejection with message M produces, isGenerating is
\* false, error = M and generatedAvatar is still null.
C5_FailureState ==
  ev.name = "reject" =>
    /\ ~isGenerating
    /\ error = ev.message
    /\ generatedAvatar = NULL

\* C6: a click on generate while isGenerating is true changes no state field
\* and starts no generateAvatar call.
C6_DispatchWhileGeneratingNoOp ==
  [][ (ev'.name = "generate" /\ isGenerating)
        => UNCHANGED << appState, inflight, calls, effects >> ]_vars

\* the click arrived while a request was outstanding
C6_Witness ==
  ev.name = "generate" /\ ~ev.accepted /\ isGenerating /\ Len(inflight) = 1

\* C7: a click on generate while originalImage is null changes no state field
\* and starts no generateAvatar call.
C7_DispatchWithoutImageNoOp ==
  [][ (ev'.name = "generate" /\ (originalImage = NULL \/ originalImage = ""))
        => UNCHANGED << appState, inflight, calls, effects >> ]_vars

\* the click arrived with no source image and nothing outstanding
C7_Witness ==
  ev.name = "generate" /\ originalImage = NULL /\ ~isGenerating /\ calls = 0

\* C8: isGenerating is true exactly while a generateAvatar call is
\* outstanding, and every state with isGenerating true is followed by one
\* where it is false.
C8_GeneratingEnds ==
  /\ [](isGenerating <=> Len(inflight) > 0)
  /\ (isGenerating ~> ~isGenerating)

\* the rejection for the missing API key has been applied
C8_Witness ==
  ev.name = "reject" /\ ev.message = API_KEY_MISSING_MSG /\ ~isGenerating

\* C9: ingesting a file whose media type does not start with image/ sets a
\* non-empty error, leaves originalImage and generatedAvatar unchanged and
\* starts no reader.
C9_NonImageRejected ==
  [][ (ev'.name \in {"upload", "drop"} /\ ~StartsWith(ev'.file.type, "image/"))
        => /\ error' # NULL /\ error' # ""
           /\ UNCHANGED << originalImage, generatedAvatar, readers >> ]_vars

\* a text file was dropped while an image and an avatar were shown
C9_Witness ==
  /\ ev.name = "drop"
  /\ ev.file.type = "text/plain"
  /\ error = INVALID_FILE_MSG
  /\ originalImage # NULL
  /\ generatedAvatar # NULL

\* C10: when the read of an image file completes, one update sets
\* originalImage to the file's data URL, error to null and generatedAvatar to
\* null.
C10_DecodeApplied ==
  ev.name = "loadend" /\ ev.ok =>
    /\ originalImage = "data:" \o ev.file.type \o ";base64," \o ev.file.data
    /\ error = NULL
    /\ generatedAvatar = NULL

\* the read of the JPEG file completed
C10_Witness ==
  /\ ev.name = "loadend"
  /\ ev.ok
  /\ ev.file.type = "image/jpeg"
  /\ originalImage = "data:image/jpeg;base64,BBBB"

\* C11: a failed operation leaves history exactly as it was: a file of a
\* non-image type handed to the upload or the drop handler, a rejected
\* generation request, and a remote answer that carries no image.
C11_FailureKeepsHistory ==
  [][ ( \/ ev'.name = "reject"
        \/ ev'.name = "resolve" /\ ev'.resp.kind # "image"
        \/ ev'.name \in {"upload", "drop"}
             /\ ~StartsWith(ev'.file.type, "image/") )
      => history' = history ]_vars

\* a request was rejected while history held records
C11_Witness ==
  /\ ev.name = "reject"
  /\ error # NULL
  /\ Len(history) = HISTORY_CAP - 1

\* C12: prepending to a history of exactly HISTORY_CAP records gives
\* HISTORY_CAP records: the first is the new record, and records 2..HISTORY_CAP
\* are the previous records 1..HISTORY_CAP-1 in the same order, so only the
\* previous last record is evicted.
C12_PrependAtCapEvictsLast ==
  [][ (ev'.name = "resolve" /\ Len(history) = HISTORY_CAP)
      => /\ Len(history') = HISTORY_CAP
         /\ history'[1].generatedAvatar = ev'.payload
         /\ history'[1].originalImage = ev'.image
         /\ history'[1].style = ev'.style
         /\ history'[1].timestamp = now
         /\ \A i \in 1..(HISTORY_CAP - 1) : history'[i + 1] = history[i] ]_vars

\* a success was applied to a full history: the oldest stored record is gone
\* and the second oldest is now last
C12_Witness ==
  /\ ev.name = "resolve"
  /\ ev.prevLen = HISTORY_CAP
  /\ history[1].generatedAvatar = ev.payload
  /\ history[HISTORY_CAP] = StoredItem(2)

\* C13: selecting a history record sets originalImage, generatedAvatar and
\* style to exactly the record's fields, sets error to null and leaves
\* history unchanged.
C13_SelectLoadsItem ==
  [][ ev'.name = "select"
      => /\ originalImage' = ev'.item.originalImage
         /\ generatedAvatar' = ev'.item.generatedAvatar
         /\ style' = ev'.item.style
         /\ error' = NULL
         /\ history' = history ]_vars

\* the newest stored record, whose style is not the initial one, was selected
\* after a generation had been dispatched and had settled
C13_Witness ==
  /\ ev.name = "select"
  /\ ev.item = StoredItem(HISTORY_CAP - 1)
  /\ generatedAvatar = ev.item.generatedAvatar
  /\ style = AvatarStyle[2]
  /\ error = NULL
  /\ calls = 1
  /\ ~isGenerating

\* C14: deleting by id removes exactly one record, the one with that id; the
\* remaining records keep their relative order and every other field of the
\* state is unchanged.
C14_DeleteRemovesExactlyOne ==
  [][ ev'.name = "delete"
      => /\ \E i \in 1..Len(history) :
              /\ history[i].id = ev'.id
              /\ history' = RemoveAt(history, i)
         /\ UNCHANGED << originalImage, generatedAvatar, isGenerating, style,
                         error, isDragging, progressStep, progressPercent >> ]_vars

\* C15: a random style selection made while not generating sets style to a
\* member of the enumeration that differs from the style selected before;
\* and in every state, every index Math.random() can produce picks such a
\* style.
C15_RandomStyleDiffers ==
  /\ [][ (ev'.name = "random" /\ ~isGenerating)
          => /\ \E j \in 1..Len(AvatarStyle) : style' = AvatarStyle[j]
             /\ style' # style ]_vars
  /\ [](\A k \in 1..Len(AvailableStyles(style)) :
          /\ \E j \in 1..Len(AvatarStyle) : AvailableStyles(style)[k] = AvatarStyle[j]
          /\ AvailableStyles(style)[k] # style)

\* the lowest draw was taken while the first style was selected: the result
\* is the second style, the first having been filtered out
C15_Witness ==
  /\ ev.name = "random"
  /\ ev.k = 0
  /\ ~isGenerating
  /\ style = AvatarStyle[2]
  /\ events = 1

\* C16: while isGenerating is true, neither an explicit style selection nor a
\* random style selection changes the selected style.
C16_StyleFrozenWhileGenerating ==
  [][ (ev'.name \in {"style", "random"} /\ isGenerating) => style' = style ]_vars

\* a button of another style was clicked during generation
C16_Witness ==
  /\ ev.name = "style"
  /\ isGenerating
  /\ ev.style # style

\* C17: while isGenerating is true the progress percentage never decreases
\* from one step to the next, is at most 98, and so never reaches 100 before
\* the request settles.
C17_ProgressMonotoneAndClamped ==
  /\ [](isGenerating => /\ progressPercent <= Pct(98)
                         /\ progressPercent < Pct(100))
  /\ [][ (isGenerating /\ isGenerating')
          => progressPercent' >= progressPercent ]_vars

\* a tick after the whole expected duration: the percentage is held at 98
C17_Witness ==
  /\ ev.name = "tick"
  /\ isGenerating
  /\ \E t \in intervals : now - t.startTime >= expectedDuration
  /\ progressPercent = Pct(98)

\* C18: every change of history is followed by a write of the new list under
\* the key, so whenever no effect is pending the stored text is the JSON of
\* the in-memory history, record for record.
C18_StoreMirrorsHistory ==
  effects = {}
    => /\ store.kind = "json"
       /\ Len(store.items) = Len(history)
       /\ \A i \in 1..Len(history) :
            store.items[i] = << history[i].id, history[i].originalImage,
                                history[i].generatedAvatar, history[i].style,
                                history[i].timestamp >>

\* the save effect has written a list that a success had extended to the cap
C18_Witness ==
  /\ effects = {}
  /\ ev.name = "effects"
  /\ "save" \in ev.ran
  /\ Len(history) = HISTORY_CAP
  /\ store.kind = "json"
  /\ store.items[1][1] = history[1].id

\* C19: when the application starts on malformed content under the history
\* key (text that is not the JSON of a list), it goes on with an empty
\* history and no error, and it does not crash.
C19_MalformedStoreTolerated ==
  [][ ("load" \in effects /\ store.kind = "raw" /\ store.text # "")
      => /\ history' = << >>
         /\ error' = NULL
         /\ "unmounted" \notin effects' ]_vars

\* C20: right after a successful generation is applied, the active view
\* matches the new record: originalImage, style and generatedAvatar are those
\* of history[1], whatever the user did while the request was outstanding.
C20_ViewMatchesNewRecord ==
  ev.name = "resolve"
    => /\ originalImage = history[1].originalImage
       /\ style = history[1].style
       /\ generatedAvatar = history[1].generatedAvatar

\* C21 as claimed: right after a successful generation is applied, error is
\* null, whatever happened while the request was outstanding.
C21_ErrorNullAfterSuccess ==
  ev.name = "resolve" => error = NULL

\* C21 as the code has it: the success update does not write error. Right
\* after a success, error is what it was before it: null, or the message of
\* a file rejected while the request was outstanding, which survives the
\* success.
C21_SuccessKeepsError ==
  /\ [][ ev'.name = "resolve" => error' = error ]_vars
  /\ [](ev.name = "resolve" => error \in {NULL, INVALID_FILE_MSG})

\* a success was applied while the message of a rejected file was shown
C21_Witness ==
  /\ ev.name = "resolve"
  /\ error = INVALID_FILE_MSG
  /\ generatedAvatar = ev.payload

\* C22: when two image files are ingested one after the other, then once both
\* decodes have completed originalImage holds the payload of the file
\* ingested last, in whichever order the decodes finish. (readers is in
\* ingestion order: of two decodes completing one right after the other, the
\* second is of the earlier file exactly when its index is lower.)
C22_LastIngestedWins ==
  [][ (ev.name = "loadend" /\ ev'.name = "loadend" /\ ev.ok /\ ev'.ok)
      => originalImage' = IF ev'.index < ev.index THEN ev.result
                                                  ELSE ev'.result ]_vars

\* C23: during startup on a well-formed stored list L, with no user action,
\* the store never holds anything other than L: the save effect does not
\* write the initial empty history over L before the loaded history is
\* applied.
C23_StartupKeepsStoredList ==
  [][ (events = 0 /\ store = Stringify(StoredList(HISTORY_CAP - 1)))
      => store' = store ]_vars

\* C24: in every reachable state the records of history have pairwise
\* distinct ids.
C24_IdsDistinct ==
  \A i, j \in 1..Len(history) : i # j => history[i].id # history[j].id

\* C25: the progress timer runs only while isGenerating is true: started when
\* isGenerating becomes true, cancelled when it becomes false. Once the
\* effects of a commit have run, a timer exists exactly when isGenerating is
\* true, and there is at most one; after teardown there is none; and no
\* timer tick writes progressPercent or progressStep in a state where
\* isGenerating is false.
C25_TimerOnlyWhileGenerating ==
  /\ [](effects = {} => ((intervals # {}) <=> isGenerating))
  /\ [](Cardinality(intervals) <= 1)
  /\ []("unmounted" \in effects => intervals = {})
  /\ [][ ev'.name = "tick" => isGenerating ]_vars
  /\ [][ ~isGenerating
          => \/ << progressPercent', progressStep' >> = << progressPercent, progressStep >>
             \/ ev'.name \in {"effects", "resolve"} ]_vars

\* C26: the success transition produces a state whose progress percentage is
\* exactly 100; and on leaving Generating, by success or by failure, the
\* progress effect resets the percentage and the step index to 0, so that
\* both are 0 whenever the application is not generating and no effect is
\* pending.
C26_ProgressResetOnLeave ==
  /\ [][ ev'.name = "resolve" => progressPercent' = Pct(100) ]_vars
  /\ [][ (ev'.name = "effects" /\ "progress" \in effects /\ ~isGenerating)
          => (progressPercent' = 0 /\ progressStep' = 0) ]_vars
  /\ []((~isGenerating /\ effects = {})
          => (progressPercent = 0 /\ progressStep = 0))

\* the effects ran after a request that had been outstanding for half the
\* expected duration was rejected
C26_Witness ==
  /\ ev.name = "effects"
  /\ "progress" \in ev.ran
  /\ ~isGenerating
  /\ error \notin {NULL, INVALID_FILE_MSG}
  /\ now >= StartTime + ClockStep
  /\ progressPercent = 0
  /\ progressStep = 0

\* C27: after startup, records are created only by a successful generation
\* and never modified. A success puts one new record in front of the previous
\* records, which keep their fields and order up to the cap; a delete or a
\* clear only removes records, and every record that stays is a previous
\* record with all its fields; every other step (upload, decode, style
\* selection, history selection, dispatch, failure, timer tick, effects)
\* leaves history unchanged.
C27_HistoryRecordsImmutable ==
  [][ "load" \notin effects
      => CASE ev'.name = "resolve" ->
                /\ Len(history') = Min(Len(history) + 1, HISTORY_CAP)
                /\ \A i \in 2..Len(history') : history'[i] = history[i - 1]
           [] ev'.name \in {"delete", "clear"} ->
                /\ Len(history') <= Len(history)
                /\ \A k \in 1..Len(history') :
                     \E j \in k..Len(history) : history'[k] = history[j]
           [] OTHER -> history' = history ]_vars

\* the newest of the stored records was deleted: the others are as they were
C27_Witness ==
  /\ ev.name = "delete"
  /\ ev.id = StoredItem(HISTORY_CAP - 1).id
  /\ Len(history) = HISTORY_CAP - 2
  /\ history = StoredList(HISTORY_CAP - 2)

\* C28: with the API key missing, a dispatched generation is a generation
\* failure: generateAvatar rejects without calling the remote model (no
\* request ever waits for it and none resolves), and the rejection leaves
\* isGenerating false, error equal to the rejection's message,
\* generatedAvatar null and history as it was.
C28_MissingKeyFails ==
  /\ [](apiKey = ""
          => /\ \A i \in 1..Len(inflight) : inflight[i].stage # "remote"
             /\ ev.name # "resolve")
  /\ []((apiKey = "" /\ ev.name = "reject")
          => /\ ~isGenerating
             /\ ev.message = API_KEY_MISSING_MSG
             /\ error = ev.message
             /\ generatedAvatar = NULL)
  /\ [][ (apiKey = "" /\ ev'.name = "reject") => history' = history ]_vars

\* without a key, a generation dispatched from a stored record was rejected
C28_Witness ==
  /\ apiKey = ""
  /\ ev.name = "reject"
  /\ calls = 1
  /\ error = API_KEY_MISSING_MSG
  /\ Len(history) = HISTORY_CAP - 1

\* C29: in every reachable state history is ordered most recent first: no
\* record has a later timestamp than a record before it (the stored list is
\* one the application wrote, and the clock never goes back).
C29_MostRecentFirst ==
  \A i, j \in 1..Len(history) :
    i < j => history[i].timestamp >= history[j].timestamp

\* a record created after the clock moved on stands before the stored ones
C29_Witness ==
  /\ Len(history) = HISTORY_CAP
  /\ history[1].timestamp > StartTime
  /\ history[2] = StoredItem(HISTORY_CAP - 1)

\* C30: clear-all empties history only when the user accepts the
\* confirmation; when the user declines, every field of the state, history
\* included, and the store are unchanged.
C30_ClearNeedsConfirmation ==
  [][ ev'.name = "clear"
      => IF ev'.confirmed
           THEN history' = << >>
           ELSE UNCHANGED << appState, store, effects >> ]_vars

\* the user declined to clear the stored records
C30_Witness ==
  /\ ev.name = "clear"
  /\ ~ev.confirmed
  /\ history = StoredList(HISTORY_CAP - 1)

\* C31: a dispatch that is accepted (an original image is present and no
\* request is outstanding) produces in one step a state with isGenerating
\* true, error null and generatedAvatar null, with exactly one request sent,
\* and leaves originalImage, style and history unchanged.
C31_AcceptedDispatch ==
  [][ (ev'.name = "generate" /\ originalImage # NULL /\ inflight = << >>)
      => /\ isGenerating'
         /\ error' = NULL
         /\ generatedAvatar' = NULL
         /\ Len(inflight') = 1
         /\ UNCHANGED << originalImage, style, history >> ]_vars

\* a generation was dispatched from a selected stored record, whose avatar
\* was on display
C31_Witness ==
  /\ ev.name = "generate"
  /\ ev.accepted
  /\ isGenerating
  /\ generatedAvatar = NULL
  /\ originalImage = StoredItem(HISTORY_CAP - 1).originalImage
  /\ style = StoredItem(HISTORY_CAP - 1).style
  /\ history = StoredList(HISTORY_CAP - 1)
  /\ calls = 1

====
